---- MODULE Spec2Model ----
(***************************************************************************)
(* Piedra, Papel o Tijera (src/js/main.js): the statistics object, the two *)
(* localStorage entries, the rendered page and the light/dark theme, with  *)
(* one action per handler (iniciarJuego, jugarRonda, reiniciarResultados,  *)
(* toggleModoOscuro) and one for a page reload.                            *)
(*                                                                         *)
(* Strings that the program builds are modelled as sequences of tokens:    *)
(* a JSON text is the sequence of its keys, numbers and string values (the *)
(* punctuation other than brackets and braces is left out), a number is    *)
(* the token ToString gives.  getItem's result is <<>> for null (no entry) *)
(* and <<v>> for the stored string v.                                      *)
(***************************************************************************)
EXTENDS Integers, Sequences, FiniteSets, TLC

\* Bound of the model: the rounds played in one behaviour.
MaxJugadas == 3

\* Bound of the model: the faults of the environment (a refused write, an
\* edit of the stored value) in one behaviour.
MaxFallos == 1

\* main.js:26, main.js:28
STORAGE_KEY == "juegoPiedraPapelTijeraStat"
STORAGE_THEME_KEY == "juegoPiedraPapelTijeraTheme"

\* main.js:109
opciones == <<"piedra", "papel", "tijera">>

\* The moves the three UI triggers pass to jugarRonda.
Moves == {opciones[i] : i \in 1..Len(opciones)}

\* Math.floor(Math.random() * 3): an index 0..2 into opciones (main.js:111).
Draws == 0..2

\* main.js:149: the history keeps at most this many records.
LimiteHistorial == 5

VARIABLES
  estadisticas,     \* the global statistics object (main.js:17)
  localStorage,     \* key -> <<>> (no entry) or <<stored string>>
  fase,             \* "cargando" before DOMContentLoaded, "interactiva" after
  excepcion,        \* the exception the last handler left uncaught, or "ninguna"
  ui,               \* the four counters and the history list of the page
  resultadoPartida, \* the text of the result message element
  bodyTag,          \* document.body: the dark class and the two style colours
  spanTexto,        \* the label of the theme toggle button
  jugadas,          \* rounds played so far in this behaviour (bounds the model)
  fallos,           \* faults of the environment so far (bounds the model)
  \* History variables: what the last handler was, not state of the program.
  ultima,           \* <<handler, its inputs...>> of the last handler run
  antes,            \* the statistics, storage, body and label before it
  rachaToggle,      \* consecutive toggleModoOscuro calls so far, up to 2
  antesDeRacha,     \* the theme before the last rachaToggle of them
  guardado          \* <<statistics of the last successful save>>, <<>> if none

vars == <<estadisticas, localStorage, fase, excepcion, ui, resultadoPartida,
          bodyTag, spanTexto, jugadas, fallos, ultima, antes, rachaToggle,
          antesDeRacha, guardado>>

NULL == <<>>

----------------------------------------------------------------------------
\* The statistics object: main.js:17-23 and main.js:88-94.

estadisticasIniciales ==
  [rondas |-> 0, usuario |-> 0, computadora |-> 0, empates |-> 0,
   historial |-> <<>>]

----------------------------------------------------------------------------
\* JSON.stringify and JSON.parse on the statistics object.

stringifyRonda(item) ==
  <<"{", "usuario", item.usuario, "computadora", item.computadora,
    "resultado", item.resultado, "}">>

RECURSIVE stringifyHistorial(_)
stringifyHistorial(h) ==
  IF h = <<>> THEN <<>>
  ELSE stringifyRonda(Head(h)) \o stringifyHistorial(Tail(h))

\* JSON.stringify(estadisticas): the keys in insertion order (main.js:54).
JSONstringify(est) ==
  <<"{", "rondas", ToString(est.rondas), "usuario", ToString(est.usuario),
    "computadora", ToString(est.computadora), "empates", ToString(est.empates),
    "historial", "[">>
  \o stringifyHistorial(est.historial)
  \o <<"]", "}">>

\* The rounds of an earlier session of the program, as <<move, draw>>: what
\* localStorage may hold when the page is first opened in a behaviour.
PartidaAnterior ==
  <<<<"piedra", 2>>, <<"papel", 1>>, <<"tijera", 0>>, <<"papel", 0>>,
    <<"piedra", 1>>>>

\* The numbers a stored text of this model can hold.
Numeros == 0..(Len(PartidaAnterior) + MaxJugadas)

esNumero(tok) == \E n \in Numeros : ToString(n) = tok

parseNumero(tok) == CHOOSE n \in Numeros : ToString(n) = tok

\* The 11 tokens before the records, and the 8 tokens of each record.
CabeceraLen == 11
RondaLen == 8

numRondasTexto(t) == (Len(t) - CabeceraLen - 2) \div RondaLen

rondaValida(t, i) ==
  LET b == CabeceraLen + (i - 1) * RondaLen
  IN /\ t[b + 1] = "{"
     /\ t[b + 2] = "usuario"
     /\ t[b + 4] = "computadora"
     /\ t[b + 6] = "resultado"
     /\ t[b + 8] = "}"

\* Whether JSON.parse accepts the text (it throws a SyntaxError otherwise).
\* The texts of this model are statistics objects and truncations of them.
JSONvalido(t) ==
  /\ Len(t) >= CabeceraLen + 2
  /\ (Len(t) - CabeceraLen - 2) % RondaLen = 0
  /\ t[1] = "{"
  /\ t[2] = "rondas" /\ esNumero(t[3])
  /\ t[4] = "usuario" /\ esNumero(t[5])
  /\ t[6] = "computadora" /\ esNumero(t[7])
  /\ t[8] = "empates" /\ esNumero(t[9])
  /\ t[10] = "historial" /\ t[11] = "["
  /\ \A i \in 1..numRondasTexto(t) : rondaValida(t, i)
  /\ t[Len(t) - 1] = "]"
  /\ t[Len(t)] = "}"

\* parseRonda with the two moves exchanged.
parseRondaCambiada(t, i) ==
  LET b == CabeceraLen + (i - 1) * RondaLen
  IN [usuario |-> t[b + 5], computadora |-> t[b + 3], resultado |-> t[b + 7]]

parseRonda(t, i) ==
  LET b == CabeceraLen + (i - 1) * RondaLen
  IN [usuario |-> t[b + 3], computadora |-> t[b + 5], resultado |-> t[b + 7]]

\* JSON.parse(datosGuardados) for a text JSON.parse accepts (main.js:46).
JSONparse(t) ==
  [rondas |-> parseNumero(t[3]),
   usuario |-> parseNumero(t[5]),
   computadora |-> parseNumero(t[7]),
   empates |-> parseNumero(t[9]),
   historial |-> [i \in 1..numRondasTexto(t) |-> parseRonda(t, i)]]

----------------------------------------------------------------------------
\* The round: main.js:116-151.

\* resultadoTipo with piedra beating papel instead of tijera.
resultadoTipoInvertido(elegirUsuario, elegirComputadora) ==
  IF elegirUsuario = elegirComputadora THEN "Empate"
  ELSE IF \/ (elegirUsuario = "piedra" /\ elegirComputadora = "papel")
          \/ (elegirUsuario = "papel" /\ elegirComputadora = "piedra")
          \/ (elegirUsuario = "tijera" /\ elegirComputadora = "papel")
       THEN "Ganaste"
       ELSE "Perdiste"

\* resultadoTipo without the third winning pair.
resultadoTipoSinTijera(elegirUsuario, elegirComputadora) ==
  IF elegirUsuario = elegirComputadora THEN "Empate"
  ELSE IF \/ (elegirUsuario = "piedra" /\ elegirComputadora = "tijera")
          \/ (elegirUsuario = "papel" /\ elegirComputadora = "piedra")
       THEN "Ganaste"
       ELSE "Perdiste"

\* The if / else if / else of main.js:116-132.
resultadoTipo(elegirUsuario, elegirComputadora) ==
  IF elegirUsuario = elegirComputadora THEN "Empate"
  ELSE IF \/ (elegirUsuario = "piedra" /\ elegirComputadora = "tijera")
          \/ (elegirUsuario = "papel" /\ elegirComputadora = "piedra")
          \/ (elegirUsuario = "tijera" /\ elegirComputadora = "papel")
       THEN "Ganaste"
       ELSE "Perdiste"

\* main.js:117, 125, 129
resultadoTexto(tipo) ==
  IF tipo = "Empate" THEN "¡Empate!"
  ELSE IF tipo = "Ganaste" THEN "¡Ganaste la ronda!"
  ELSE "¡Perdiste la ronda!"

\* contarRonda with the counters of the two winners exchanged.
contarRondaCambiada(est, tipo) ==
  LET e == IF tipo = "Empate" THEN [est EXCEPT !.empates = @ + 1]
           ELSE IF tipo = "Ganaste" THEN [est EXCEPT !.computadora = @ + 1]
           ELSE [est EXCEPT !.usuario = @ + 1]
  IN [e EXCEPT !.rondas = @ + 1]

\* contarRonda with rondas++ moved into the two branches that are not a draw.
contarRondaSinEmpate(est, tipo) ==
  IF tipo = "Empate" THEN [est EXCEPT !.empates = @ + 1]
  ELSE IF tipo = "Ganaste"
       THEN [est EXCEPT !.usuario = @ + 1, !.rondas = @ + 1]
       ELSE [est EXCEPT !.computadora = @ + 1, !.rondas = @ + 1]

\* The counter of the branch taken, then rondas++ (main.js:119, 127, 131, 134).
contarRonda(est, tipo) ==
  LET e == IF tipo = "Empate" THEN [est EXCEPT !.empates = @ + 1]
           ELSE IF tipo = "Ganaste" THEN [est EXCEPT !.usuario = @ + 1]
           ELSE [est EXCEPT !.computadora = @ + 1]
  IN [e EXCEPT !.rondas = @ + 1]

\* registrarRonda with push() and shift() for unshift() and pop().
registrarRondaAlFinal(historial, item) ==
  LET h == historial \o <<item>>
  IN IF Len(h) > LimiteHistorial THEN Tail(h) ELSE h

\* registrarRonda with >= for >.
registrarRondaMayorIgual(historial, item) ==
  LET h == <<item>> \o historial
  IN IF Len(h) >= LimiteHistorial THEN SubSeq(h, 1, Len(h) - 1) ELSE h

\* registrarRonda with the limit tested before the unshift.
registrarRondaLimiteAntes(historial, item) ==
  IF Len(historial) > LimiteHistorial
  THEN <<item>> \o SubSeq(historial, 1, Len(historial) - 1)
  ELSE <<item>> \o historial

\* historial.unshift(record), then one pop() if the length exceeds 5
\* (main.js:142-151).
registrarRonda(historial, item) ==
  LET h == <<item>> \o historial
  IN IF Len(h) > LimiteHistorial THEN SubSeq(h, 1, Len(h) - 1) ELSE h

\* The statistics after jugarRonda's updates (main.js:116-151).
estadisticasTrasRonda(est, elegirUsuario, elegirComputadora) ==
  LET tipo == resultadoTipo(elegirUsuario, elegirComputadora)
      e == contarRonda(est, tipo)
  IN [e EXCEPT !.historial =
        registrarRonda(@, [usuario |-> elegirUsuario,
                           computadora |-> elegirComputadora,
                           resultado |-> tipo])]

\* The template string of main.js:139, by its three interpolated values.
mensajeRonda(elegirUsuario, elegirComputadora) ==
  <<resultadoTexto(resultadoTipo(elegirUsuario, elegirComputadora)),
    elegirUsuario, elegirComputadora>>

\* main.js:97
mensajeReinicio == <<"Estadísticas reiniciadas ¡Comienza de nuevo!">>

----------------------------------------------------------------------------
\* actualizarUI: main.js:61-80.

\* main.js:72-74
colorDe(resultado) ==
  IF resultado = "Perdiste" THEN "text-red-500 font-mono"
  ELSE IF resultado = "Ganaste" THEN "text-green-500 font-mono"
  ELSE "text-gray-800 dark:text-gray-100"

\* One <li>: its colour class and the three values of its text (main.js:71-78).
li(item) ==
  [className |-> colorDe(item.resultado),
   textContent |-> <<item.usuario, item.computadora, item.resultado>>]

\* actualizarUI without listaRondas.innerHTML = "".
actualizarUISinLimpiar(est) ==
  [rondasJugadas |-> ToString(est.rondas),
   ganadasUsuario |-> ToString(est.usuario),
   ganadasComput |-> ToString(est.computadora),
   rondasEmpates |-> ToString(est.empates),
   listaRondas |->
     ui.listaRondas \o [i \in 1..Len(est.historial) |-> li(est.historial[i])]]

\* The counters (textContent turns the numbers into strings) and the list,
\* emptied and rebuilt from the history.
actualizarUI(est) ==
  [rondasJugadas |-> ToString(est.rondas),
   ganadasUsuario |-> ToString(est.usuario),
   ganadasComput |-> ToString(est.computadora),
   rondasEmpates |-> ToString(est.empates),
   listaRondas |-> [i \in 1..Len(est.historial) |-> li(est.historial[i])]]

----------------------------------------------------------------------------
\* The theme: main.js:161-223.

ColorOscuro == [backgroundColor |-> "#111827", color |-> "#f9fafb"]
ColorClaro == [backgroundColor |-> "#f3f4f6", color |-> "#111827"]

\* main.js:170-172, 206-208
bodyOscuro ==
  [dark |-> TRUE, backgroundColor |-> ColorOscuro.backgroundColor,
   color |-> ColorOscuro.color]

\* main.js:174-176, 201-203
bodyClaro ==
  [dark |-> FALSE, backgroundColor |-> ColorClaro.backgroundColor,
   color |-> ColorClaro.color]

\* textoBoton naming the state the page is in.
textoBotonActual(body) ==
  IF body.dark THEN "Cambiar a modo oscuro" ELSE "Cambiar a modo claro"

\* main.js:185-187, 218-220
textoBoton(body) ==
  IF body.dark THEN "Cambiar a modo claro" ELSE "Cambiar a modo oscuro"

\* esOscuro with matchMedia's result tested whatever is stored.
esOscuroAmbientePrimero(temaOscuro, prefiereOscuro) ==
  temaOscuro = <<"dark">> \/ prefiereOscuro

\* The condition of main.js:166-169 on getItem's result and matchMedia's.
esOscuro(temaOscuro, prefiereOscuro) ==
  \/ temaOscuro = <<"dark">>
  \/ ((temaOscuro = NULL \/ temaOscuro = <<"">>) /\ prefiereOscuro)

\* The body cargarModoOscuro leaves (main.js:166-177).
cargarModoOscuro(temaOscuro, prefiereOscuro) ==
  IF esOscuro(temaOscuro, prefiereOscuro) THEN bodyOscuro ELSE bodyClaro

\* toggleModoOscuro adding the dark class without testing for it.
toggleBodySiempreOscuro(body) == bodyOscuro

\* The body toggleModoOscuro leaves (main.js:200-210).
toggleBody(body) == IF body.dark THEN bodyClaro ELSE bodyOscuro

\* toggleTema with the two strings exchanged.
toggleTemaCambiado(body) == IF body.dark THEN "dark" ELSE "light"

\* The string toggleModoOscuro stores under the theme key (main.js:204, 209).
toggleTema(body) == IF body.dark THEN "light" ELSE "dark"

----------------------------------------------------------------------------
\* localStorage and the two adapters: main.js:43-55.

getItem(ls, key) == ls[key]

setItem(ls, key, value) == [ls EXCEPT ![key] = <<value>>]

\* if (datosGuardados): neither null nor the empty string (main.js:45).
hayDatos(datosGuardados) == datosGuardados # NULL /\ datosGuardados[1] # <<>>

\* Whether cargarEstadisticas throws: JSON.parse rejects the text (main.js:46).
cargarEstadisticasLanza(ls) ==
  LET datosGuardados == getItem(ls, STORAGE_KEY)
  IN hayDatos(datosGuardados) /\ ~JSONvalido(datosGuardados[1])

\* The statistics cargarEstadisticas leaves when it does not throw
\* (main.js:43-48).
cargarEstadisticas(ls, est) ==
  LET datosGuardados == getItem(ls, STORAGE_KEY)
  IN IF hayDatos(datosGuardados) THEN JSONparse(datosGuardados[1]) ELSE est

\* guardarEstadisticas writing under the other key.
guardarEstadisticasClaveTema(ls, est) ==
  setItem(ls, STORAGE_THEME_KEY, JSONstringify(est))

\* guardarEstadisticas writing the counters without the history.
guardarEstadisticasSoloContadores(ls, est) ==
  setItem(ls, STORAGE_KEY, JSONstringify([est EXCEPT !.historial = <<>>]))

\* The storage guardarEstadisticas leaves (main.js:53-55).
guardarEstadisticas(ls, est) == setItem(ls, STORAGE_KEY, JSONstringify(est))

\* The reset with the history left as it is.
estadisticasReiniciadasConHistorial ==
  [estadisticas EXCEPT !.rondas = 0, !.usuario = 0, !.computadora = 0,
                       !.empates = 0]

\* main.js:88-94
estadisticasReiniciadas ==
  [rondas |-> 0, usuario |-> 0, computadora |-> 0, empates |-> 0,
   historial |-> <<>>]

----------------------------------------------------------------------------
\* The history variables.

estadoActual ==
  [estadisticas |-> estadisticas,
   datos |-> getItem(localStorage, STORAGE_KEY),
   tema |-> getItem(localStorage, STORAGE_THEME_KEY),
   body |-> bodyTag,
   span |-> spanTexto,
   ui |-> ui]

temaDe(estado) ==
  [body |-> estado.body, span |-> estado.span, tema |-> estado.tema]

\* antesDeRacha while the last handler was not toggleModoOscuro.
SinRacha == [body |-> [dark |-> FALSE, backgroundColor |-> "", color |-> ""],
             span |-> "", tema |-> <<>>]

\* A handler other than toggleModoOscuro has run with these inputs.
Historia(entrada) ==
  /\ ultima' = entrada
  /\ antes' = estadoActual
  /\ rachaToggle' = 0
  /\ antesDeRacha' = SinRacha

----------------------------------------------------------------------------
\* The page as the document gives it, before any handler has run.

\* The statistics after the first n rounds of the earlier session.
RECURSIVE estadisticasAnteriores(_)
estadisticasAnteriores(n) ==
  IF n = 0 THEN estadisticasIniciales
  ELSE estadisticasTrasRonda(estadisticasAnteriores(n - 1),
                             PartidaAnterior[n][1],
                             opciones[PartidaAnterior[n][2] + 1])

\* What the statistics key may hold at first: nothing, or what an earlier
\* session wrote after a reset and 0..5 rounds.
AlmacenAnterior ==
  {NULL} \cup {<<JSONstringify(estadisticasAnteriores(n))>> :
                 n \in 0..Len(PartidaAnterior)}

uiHTML ==
  [rondasJugadas |-> "", ganadasUsuario |-> "", ganadasComput |-> "",
   rondasEmpates |-> "", listaRondas |-> <<>>]

bodyHTML == [dark |-> FALSE, backgroundColor |-> "", color |-> ""]

Init ==
  /\ estadisticas = estadisticasIniciales
  /\ \E datos \in AlmacenAnterior :
       localStorage = [key \in {STORAGE_KEY, STORAGE_THEME_KEY} |->
                         IF key = STORAGE_KEY THEN datos ELSE NULL]
  /\ fase = "cargando"
  /\ excepcion = "ninguna"
  /\ ui = uiHTML
  /\ resultadoPartida = <<>>
  /\ bodyTag = bodyHTML
  /\ spanTexto = ""
  /\ jugadas = 0
  /\ fallos = 0
  /\ ultima = <<"script">>
  /\ antes = estadoActual
  /\ rachaToggle = 0
  /\ antesDeRacha = SinRacha
  /\ guardado = <<>>

----------------------------------------------------------------------------
\* The handlers.

\* DOMContentLoaded: iniciarJuego (main.js:34-38, 226).  prefiereOscuro is
\* matchMedia("(prefers-color-scheme: dark)").matches.  A SyntaxError of
\* JSON.parse leaves iniciarJuego before actualizarUI and cargarModoOscuro.
IniciarJuego ==
  /\ fase = "cargando"
  /\ fase' = "interactiva"
  /\ UNCHANGED <<localStorage, resultadoPartida, jugadas, fallos, guardado>>
  /\ IF cargarEstadisticasLanza(localStorage)
     THEN /\ excepcion' = "SyntaxError"
          /\ Historia(<<"iniciarJuego">>)
          /\ UNCHANGED <<estadisticas, ui, bodyTag, spanTexto>>
     ELSE \E prefiereOscuro \in BOOLEAN :
            LET est == cargarEstadisticas(localStorage, estadisticas)
                body == cargarModoOscuro(getItem(localStorage, STORAGE_THEME_KEY),
                                         prefiereOscuro)
            IN /\ estadisticas' = est
               /\ ui' = actualizarUI(est)
               /\ bodyTag' = body
               /\ spanTexto' = textoBoton(body)
               /\ excepcion' = "ninguna"
               /\ Historia(<<"iniciarJuego", prefiereOscuro>>)

\* jugarRonda(elegirUsuario) with Math.random drawing opciones[draw]
\* (main.js:108-155).  With sinEspacio, setItem throws (the quota is exceeded
\* or storage is disabled) and the handler ends before actualizarUI.
Ronda(elegirUsuario, draw, sinEspacio) ==
  LET elegirComputadora == opciones[draw + 1]
      est == estadisticasTrasRonda(estadisticas, elegirUsuario, elegirComputadora)
  IN /\ fase = "interactiva"
     /\ jugadas < MaxJugadas
     /\ jugadas' = jugadas + 1
     /\ estadisticas' = est
     /\ resultadoPartida' = mensajeRonda(elegirUsuario, elegirComputadora)
     /\ IF sinEspacio
        THEN /\ fallos < MaxFallos
             /\ fallos' = fallos + 1
             /\ excepcion' = "QuotaExceededError"
             /\ UNCHANGED <<localStorage, ui, guardado>>
        ELSE /\ excepcion' = "ninguna"
             /\ localStorage' = guardarEstadisticas(localStorage, est)
             /\ UNCHANGED fallos
             /\ guardado' = <<est>>
             /\ ui' = actualizarUI(est)
     /\ Historia(<<"jugarRonda", elegirUsuario, elegirComputadora>>)
     /\ UNCHANGED <<fase, bodyTag, spanTexto>>

JugarRonda ==
  \E elegirUsuario \in Moves, draw \in Draws :
    Ronda(elegirUsuario, draw, FALSE)

\* reiniciarResultados (main.js:87-100).
Reinicio(sinEspacio) ==
  /\ fase = "interactiva"
  /\ estadisticas' = estadisticasReiniciadas
  /\ resultadoPartida' = mensajeReinicio
  /\ IF sinEspacio
     THEN /\ fallos < MaxFallos
          /\ fallos' = fallos + 1
          /\ excepcion' = "QuotaExceededError"
          /\ UNCHANGED <<localStorage, ui, guardado>>
     ELSE /\ excepcion' = "ninguna"
          /\ localStorage' = guardarEstadisticas(localStorage, estadisticasReiniciadas)
          /\ UNCHANGED fallos
          /\ guardado' = <<estadisticasReiniciadas>>
          /\ ui' = actualizarUI(estadisticasReiniciadas)
  /\ Historia(<<"reiniciarResultados">>)
  /\ UNCHANGED <<fase, bodyTag, spanTexto, jugadas>>

ReiniciarResultados == Reinicio(FALSE)

\* toggleModoOscuro (main.js:196-223).  With sinEspacio, setItem throws after
\* the class and the colours are set and before the label is.
Toggle(sinEspacio) ==
  /\ fase = "interactiva"
  /\ bodyTag' = toggleBody(bodyTag)
  /\ IF sinEspacio
     THEN /\ fallos < MaxFallos
          /\ fallos' = fallos + 1
          /\ excepcion' = "QuotaExceededError"
          /\ UNCHANGED <<localStorage, spanTexto>>
     ELSE /\ excepcion' = "ninguna"
          /\ UNCHANGED fallos
          /\ localStorage' = setItem(localStorage, STORAGE_THEME_KEY,
                                     toggleTema(bodyTag))
          /\ spanTexto' = textoBoton(toggleBody(bodyTag))
  /\ ultima' = <<"toggleModoOscuro">>
  /\ antes' = estadoActual
  /\ rachaToggle' = IF rachaToggle < 2 THEN rachaToggle + 1 ELSE 2
  /\ antesDeRacha' = temaDe(IF rachaToggle = 0 THEN estadoActual ELSE antes)
  /\ UNCHANGED <<estadisticas, fase, ui, resultadoPartida, jugadas, guardado>>

ToggleModoOscuro == Toggle(FALSE)

\* The page is loaded again: the script runs from its first line on the
\* document as served, and localStorage is what the last session left.
Recargar ==
  /\ fase = "interactiva"
  /\ fase' = "cargando"
  /\ estadisticas' = estadisticasIniciales
  /\ excepcion' = "ninguna"
  /\ ui' = uiHTML
  /\ resultadoPartida' = <<>>
  /\ bodyTag' = bodyHTML
  /\ spanTexto' = ""
  /\ Historia(<<"recargar">>)
  /\ UNCHANGED <<localStorage, jugadas, fallos, guardado>>

Next ==
  \/ IniciarJuego
  \/ JugarRonda
  \/ ReiniciarResultados
  \/ ToggleModoOscuro
  \/ Recargar

Spec == Init /\ [][Next]_vars

----------------------------------------------------------------------------
\* The environment's faults: a storage that refuses writes, and a stored
\* value that something other than the program wrote.

JugarRondaSinEspacio ==
  \E elegirUsuario \in Moves, draw \in Draws :
    Ronda(elegirUsuario, draw, TRUE)

ReiniciarResultadosSinEspacio == Reinicio(TRUE)

ToggleModoOscuroSinEspacio == Toggle(TRUE)

NextAlmacenLleno ==
  \/ Next
  \/ JugarRondaSinEspacio
  \/ ReiniciarResultadosSinEspacio
  \/ ToggleModoOscuroSinEspacio

SpecAlmacenLleno == Init /\ [][NextAlmacenLleno]_vars

\* A text cut short, which JSON.parse rejects.
TextoCortado == <<"{", "rondas">>

\* Statistics JSON.parse accepts that the program never writes: counters
\* that do not add up to rondas, and a history of 6 records.
EstadisticasAjenas ==
  {[estadisticasIniciales EXCEPT !.rondas = 2],
   [estadisticasAnteriores(5) EXCEPT
      !.rondas = 6, !.empates = 2,
      !.historial = <<[usuario |-> "papel", computadora |-> "papel",
                       resultado |-> "Empate"]>> \o @]}

TextosMalformados ==
  {TextoCortado} \cup {JSONstringify(est) : est \in EstadisticasAjenas}

\* The statistics key is overwritten from outside the program.
EditarAlmacen ==
  /\ fase = "interactiva"
  /\ fallos < MaxFallos
  /\ fallos' = fallos + 1
  /\ \E texto \in TextosMalformados :
       localStorage' = setItem(localStorage, STORAGE_KEY, texto)
  /\ guardado' = <<>>
  /\ Historia(<<"editarAlmacen">>)
  /\ UNCHANGED <<estadisticas, fase, excepcion, ui, resultadoPartida, bodyTag,
                 spanTexto, jugadas>>

NextAlmacenEditado == Next \/ EditarAlmacen

SpecAlmacenEditado == Init /\ [][NextAlmacenEditado]_vars

\* A move that none of the three triggers passes.
JugadasInvalidas == {"lagarto"}

\* jugarRonda called with a move outside opciones: the same code runs.
JugarRondaInvalida ==
  \E elegirUsuario \in JugadasInvalidas, draw \in Draws :
    Ronda(elegirUsuario, draw, FALSE)

NextJugadaInvalida == Next \/ JugarRondaInvalida

SpecJugadaInvalida == Init /\ [][NextJugadaInvalida]_vars

----------------------------------------------------------------------------
\* Properties.

datosGuardados == getItem(localStorage, STORAGE_KEY)

\* C1: in every state reached by rounds and resets, from a session started
\* on empty storage or on storage an earlier session wrote,
\* usuario + computadora + empates = rondas.
C1_SumaDeContadores ==
  estadisticas.usuario + estadisticas.computadora + estadisticas.empates
    = estadisticas.rondas

\* A round has just been played on loaded statistics, with every counter
\* above zero.
C1_Witness ==
  /\ ultima[1] = "jugarRonda"
  /\ estadisticas.rondas >= 6
  /\ estadisticas.usuario > 0
  /\ estadisticas.computadora > 0
  /\ estadisticas.empates > 0

\* C2: the history never holds more than 5 records; a round played on a
\* history of 5 records drops the last (oldest) one, leaves 5 records and
\* puts the new record first.
C2_HistorialAcotado ==
  /\ Len(estadisticas.historial) <= 5
  /\ (ultima[1] = "jugarRonda" /\ Len(antes.estadisticas.historial) = 5)
       => /\ Len(estadisticas.historial) = 5
          /\ estadisticas.historial[1].usuario = ultima[2]
          /\ estadisticas.historial[1].computadora = ultima[3]
          /\ \A i \in 1..4 :
               estadisticas.historial[i + 1] = antes.estadisticas.historial[i]

\* A round has just been played on a history of 5 records.
C2_Witness ==
  /\ ultima[1] = "jugarRonda"
  /\ Len(antes.estadisticas.historial) = 5
  /\ estadisticas.historial[5] # antes.estadisticas.historial[5]

\* The outcome of each of the nine pairs, as the rules state it.
ResultadoEsperado ==
  [u \in Moves |-> [c \in Moves |->
     IF u = c THEN "Empate"
     ELSE IF <<u, c>> \in {<<"piedra", "tijera">>, <<"papel", "piedra">>,
                           <<"tijera", "papel">>}
          THEN "Ganaste"
          ELSE "Perdiste"]]

\* C3: the outcome of a round is the one the rules give to its pair of
\* moves, whatever the statistics were: the record of the round and the
\* message name it.
C3_ResultadoPorPar ==
  ultima[1] = "jugarRonda" =>
    LET esperado == ResultadoEsperado[ultima[2]][ultima[3]]
    IN /\ estadisticas.historial[1] =
            [usuario |-> ultima[2], computadora |-> ultima[3],
             resultado |-> esperado]
       /\ resultadoPartida[1] =
            (CASE esperado = "Empate" -> "¡Empate!"
               [] esperado = "Ganaste" -> "¡Ganaste la ronda!"
               [] esperado = "Perdiste" -> "¡Perdiste la ronda!")

\* tijera against papel has just been played on statistics that already
\* count rounds.
C3_Witness ==
  /\ ultima = <<"jugarRonda", "tijera", "papel">>
  /\ antes.estadisticas.rondas > 0
  /\ estadisticas.historial[1].resultado = "Ganaste"

\* The zero statistics and their stored text, written out.
Ceros ==
  [rondas |-> 0, usuario |-> 0, computadora |-> 0, empates |-> 0,
   historial |-> <<>>]

TextoCeros ==
  <<"{", "rondas", "0", "usuario", "0", "computadora", "0", "empates", "0",
    "historial", "[", "]", "}">>

\* C4: after reiniciarResultados the statistics are the zero value and the
\* statistics key holds exactly that value; a reset of the state a reset
\* left changes neither.
C4_Reinicio ==
  ultima[1] = "reiniciarResultados" =>
    /\ estadisticas = Ceros
    /\ datosGuardados = <<TextoCeros>>
    /\ (antes.estadisticas = Ceros /\ antes.datos = <<TextoCeros>>)
         => (estadisticas = antes.estadisticas /\ datosGuardados = antes.datos)

\* A reset has just run on statistics with rounds and a full history.
C4_Witness ==
  /\ ultima[1] = "reiniciarResultados"
  /\ antes.estadisticas.rondas > 5
  /\ Len(antes.estadisticas.historial) = 5
  /\ antes.datos # <<TextoCeros>>

\* C5: a new session that loads what guardarEstadisticas stored has the
\* statistics that were saved: the four counters and the records in order.
C5_IdaYVuelta ==
  (ultima[1] = "iniciarJuego" /\ guardado # <<>>) =>
    /\ estadisticas.rondas = guardado[1].rondas
    /\ estadisticas.usuario = guardado[1].usuario
    /\ estadisticas.computadora = guardado[1].computadora
    /\ estadisticas.empates = guardado[1].empates
    /\ Len(estadisticas.historial) = Len(guardado[1].historial)
    /\ \A i \in 1..Len(guardado[1].historial) :
         estadisticas.historial[i] = guardado[1].historial[i]

\* A session has just loaded saved statistics whose history holds 5 records,
\* not all alike, after more than 5 rounds.
C5_Witness ==
  /\ ultima[1] = "iniciarJuego"
  /\ guardado # <<>>
  /\ guardado[1].rondas > 5
  /\ Len(estadisticas.historial) = 5
  /\ estadisticas.historial[1] # estadisticas.historial[2]
  /\ estadisticas.historial[1].usuario # estadisticas.historial[1].computadora

temaGuardado == getItem(localStorage, STORAGE_THEME_KEY)

\* C6 as stated: two consecutive toggleModoOscuro calls leave the dark class,
\* the colours, the label and the stored preference as they were before the
\* first, whether or not a preference was stored then.
C6_DosTogglesTodoIgual ==
  rachaToggle = 2 =>
    /\ bodyTag = antesDeRacha.body
    /\ spanTexto = antesDeRacha.span
    /\ temaGuardado = antesDeRacha.tema

\* C6, amended: two consecutive toggleModoOscuro calls leave the dark class,
\* the colours and the label as they were before the first; the stored
\* preference is as it was if one was stored, and otherwise it is now stored
\* and names the theme the page is back in.
C6_DosToggles ==
  rachaToggle = 2 =>
    /\ bodyTag = antesDeRacha.body
    /\ spanTexto = antesDeRacha.span
    /\ antesDeRacha.tema # NULL => temaGuardado = antesDeRacha.tema
    /\ antesDeRacha.tema = NULL =>
         temaGuardado = <<IF antesDeRacha.body.dark THEN "dark" ELSE "light">>

\* Two toggles in a row have run on a page that was dark by the ambient
\* preference, nothing being stored.
C6_Witness ==
  /\ rachaToggle = 2
  /\ ultima[1] = "toggleModoOscuro"
  /\ antesDeRacha.tema = NULL
  /\ antesDeRacha.body.dark

\* C7: iniciarJuego sets the theme to the stored preference if there is one,
\* whatever the ambient preference; with none stored, to dark if the ambient
\* preference is dark and to light otherwise.
C7_TemaInicial ==
  (ultima[1] = "iniciarJuego" /\ excepcion = "ninguna") =>
    bodyTag.dark =
      (IF temaGuardado = <<"dark">> THEN TRUE
       ELSE IF temaGuardado = <<"light">> THEN FALSE
       ELSE ultima[2])

\* A session has just started light on a stored "light" although the
\* ambient preference is dark.
C7_Witness ==
  /\ ultima = <<"iniciarJuego", TRUE>>
  /\ temaGuardado = <<"light">>
  /\ ~bodyTag.dark

\* C8: once iniciarJuego has run, and after every toggle, the label is
\* "Cambiar a modo claro" and the colours are (#111827, #f9fafb) exactly when
\* the page is dark, and the label is "Cambiar a modo oscuro" and the colours
\* (#f3f4f6, #111827) exactly when it is light; a session with nothing stored
\* and a dark ambient preference is dark.
C8_EtiquetaYColores ==
  fase = "interactiva" =>
    /\ bodyTag.dark <=>
         /\ spanTexto = "Cambiar a modo claro"
         /\ bodyTag.backgroundColor = "#111827"
         /\ bodyTag.color = "#f9fafb"
    /\ ~bodyTag.dark <=>
         /\ spanTexto = "Cambiar a modo oscuro"
         /\ bodyTag.backgroundColor = "#f3f4f6"
         /\ bodyTag.color = "#111827"
    /\ (/\ ultima = <<"iniciarJuego", TRUE>>
        /\ temaGuardado = NULL
        /\ datosGuardados = NULL) => bodyTag.dark

\* A session has just started with nothing stored and a dark ambient
\* preference.
C8_Witness ==
  /\ ultima = <<"iniciarJuego", TRUE>>
  /\ temaGuardado = NULL
  /\ datosGuardados = NULL
  /\ spanTexto = "Cambiar a modo claro"

\* C9: when the statistics key holds a malformed value (one JSON.parse
\* rejects, or one that is not statistics of the program), iniciarJuego
\* leaves the zero statistics, raises nothing, and goes on to paint the
\* counters and the list and to apply the theme.
C9_AlmacenMalformado ==
  (/\ ultima[1] = "iniciarJuego"
   /\ datosGuardados \in {<<texto>> : texto \in TextosMalformados}) =>
    /\ estadisticas = Ceros
    /\ excepcion = "ninguna"
    /\ ui.rondasJugadas = "0"
    /\ ui.ganadasUsuario = "0"
    /\ ui.ganadasComput = "0"
    /\ ui.rondasEmpates = "0"
    /\ ui.listaRondas = <<>>
    /\ spanTexto \in {"Cambiar a modo claro", "Cambiar a modo oscuro"}
    /\ bodyTag.backgroundColor \in {"#111827", "#f3f4f6"}

\* C10: when the write to storage fails in a round or a reset, the
\* statistics in memory are the updated ones (the round counted and
\* recorded, or zero) and the page is painted from them: the counters and
\* one line per record of the history.
C10_FalloDeEscritura ==
  (/\ excepcion = "QuotaExceededError"
   /\ ultima[1] \in {"jugarRonda", "reiniciarResultados"}) =>
    /\ ultima[1] = "jugarRonda" =>
         /\ estadisticas.rondas = antes.estadisticas.rondas + 1
         /\ estadisticas.historial[1] =
              [usuario |-> ultima[2], computadora |-> ultima[3],
               resultado |-> ResultadoEsperado[ultima[2]][ultima[3]]]
    /\ ultima[1] = "reiniciarResultados" => estadisticas = Ceros
    /\ ui.rondasJugadas = ToString(estadisticas.rondas)
    /\ ui.ganadasUsuario = ToString(estadisticas.usuario)
    /\ ui.ganadasComput = ToString(estadisticas.computadora)
    /\ ui.rondasEmpates = ToString(estadisticas.empates)
    /\ Len(ui.listaRondas) = Len(estadisticas.historial)
    /\ \A i \in 1..Len(estadisticas.historial) :
         ui.listaRondas[i].textContent =
           <<estadisticas.historial[i].usuario,
             estadisticas.historial[i].computadora,
             estadisticas.historial[i].resultado>>

\* C11: a round called with a move outside {piedra, papel, tijera} is
\* rejected with an error: no counter changes, no record is added and
\* nothing is written to storage.
C11_JugadaInvalidaRechazada ==
  (ultima[1] = "jugarRonda" /\ ultima[2] \notin {"piedra", "papel", "tijera"})
    => /\ excepcion # "ninguna"
       /\ estadisticas = antes.estadisticas
       /\ datosGuardados = antes.datos

\* C12: a round adds exactly 1 to rondas and exactly 1 to the counter of its
\* outcome (Ganaste: usuario, Perdiste: computadora, Empate: empates), and
\* leaves the other two counters as they were.
C12_UnContadorPorRonda ==
  ultima[1] = "jugarRonda" =>
    LET o == ResultadoEsperado[ultima[2]][ultima[3]]
        a == antes.estadisticas
    IN /\ estadisticas.rondas = a.rondas + 1
       /\ estadisticas.usuario = a.usuario + (IF o = "Ganaste" THEN 1 ELSE 0)
       /\ estadisticas.computadora =
            a.computadora + (IF o = "Perdiste" THEN 1 ELSE 0)
       /\ estadisticas.empates = a.empates + (IF o = "Empate" THEN 1 ELSE 0)

\* A lost round has just been played on statistics that count wins, losses
\* and draws.
C12_Witness ==
  /\ ultima = <<"jugarRonda", "tijera", "piedra">>
  /\ antes.estadisticas.usuario > 0
  /\ antes.estadisticas.computadora > 0
  /\ antes.estadisticas.empates > 0
  /\ estadisticas.computadora = antes.estadisticas.computadora + 1

\* C13: after a round the history is the first 5 records of the new record
\* followed by the history before: the new record first, the earlier ones
\* in their order one place later, and the last one gone only if there were
\* 5 before.
C13_HistorialTrasRonda ==
  ultima[1] = "jugarRonda" =>
    LET h == estadisticas.historial
        a == antes.estadisticas.historial
    IN /\ Len(h) = (IF Len(a) < 5 THEN Len(a) + 1 ELSE 5)
       /\ h[1] = [usuario |-> ultima[2], computadora |-> ultima[3],
                  resultado |-> ResultadoEsperado[ultima[2]][ultima[3]]]
       /\ \A i \in 2..Len(h) : h[i] = a[i - 1]

\* A round has just been played on a history of 3 records that are not all
\* alike.
C13_Witness ==
  /\ ultima[1] = "jugarRonda"
  /\ Len(antes.estadisticas.historial) = 3
  /\ antes.estadisticas.historial[1] # antes.estadisticas.historial[3]
  /\ Len(estadisticas.historial) = 4

\* C14: toggleModoOscuro leaves the statistics, the painted counters and
\* list and the value under the statistics key as they were; jugarRonda and
\* reiniciarResultados leave the body, the label and the value under the
\* theme key as they were.
C14_TemaYJuegoIndependientes ==
  /\ ultima[1] = "toggleModoOscuro" =>
       /\ estadisticas = antes.estadisticas
       /\ ui = antes.ui
       /\ datosGuardados = antes.datos
  /\ ultima[1] \in {"jugarRonda", "reiniciarResultados"} =>
       /\ bodyTag = antes.body
       /\ spanTexto = antes.span
       /\ temaGuardado = antes.tema

\* A round has just been played on a dark page whose theme is stored.
C14_Witness ==
  /\ ultima[1] = "jugarRonda"
  /\ antes.tema = <<"dark">>
  /\ antes.body.dark
  /\ estadisticas.rondas > 0

\* C15: once iniciarJuego has run, after every round and reset, the page
\* shows the statistics: the four counters, and one line per record of the
\* history in the same order and no other line; painting again leaves it so.
C15_VistaIgualAEstado ==
  fase = "interactiva" =>
    /\ ui.rondasJugadas = ToString(estadisticas.rondas)
    /\ ui.ganadasUsuario = ToString(estadisticas.usuario)
    /\ ui.ganadasComput = ToString(estadisticas.computadora)
    /\ ui.rondasEmpates = ToString(estadisticas.empates)
    /\ Len(ui.listaRondas) = Len(estadisticas.historial)
    /\ \A i \in 1..Len(estadisticas.historial) :
         ui.listaRondas[i].textContent =
           <<estadisticas.historial[i].usuario,
             estadisticas.historial[i].computadora,
             estadisticas.historial[i].resultado>>
    /\ actualizarUI(estadisticas) = ui

\* A round has just been painted over a list that already showed 5 lines.
C15_Witness ==
  /\ ultima[1] = "jugarRonda"
  /\ Len(antes.ui.listaRondas) = 5
  /\ Len(ui.listaRondas) = 5
  /\ ui.listaRondas # antes.ui.listaRondas

\* C16: once iniciarJuego has run, if nothing is stored under the statistics
\* key the statistics are the zero value, and if a value is stored it is the
\* text of the whole statistics: the four counters and every record.
C16_AlmacenIgualAEstado ==
  fase = "interactiva" =>
    /\ datosGuardados = NULL => estadisticas = Ceros
    /\ datosGuardados # NULL =>
         LET t == datosGuardados[1]
             h == estadisticas.historial
         IN /\ Len(t) = 13 + 8 * Len(h)
            /\ t[3] = ToString(estadisticas.rondas)
            /\ t[5] = ToString(estadisticas.usuario)
            /\ t[7] = ToString(estadisticas.computadora)
            /\ t[9] = ToString(estadisticas.empates)
            /\ \A i \in 1..Len(h) :
                 /\ t[11 + 8 * (i - 1) + 3] = h[i].usuario
                 /\ t[11 + 8 * (i - 1) + 5] = h[i].computadora
                 /\ t[11 + 8 * (i - 1) + 7] = h[i].resultado

\* A round has just overwritten a stored value that held 5 records.
C16_Witness ==
  /\ ultima[1] = "jugarRonda"
  /\ antes.datos # NULL
  /\ Len(antes.estadisticas.historial) = 5
  /\ datosGuardados # antes.datos

\* C17: every record of the history has both moves in {piedra, papel,
\* tijera} and the outcome the rules give to that pair.
C17_RegistrosCoherentes ==
  \A i \in 1..Len(estadisticas.historial) :
    LET r == estadisticas.historial[i]
    IN /\ r.usuario \in {"piedra", "papel", "tijera"}
       /\ r.computadora \in {"piedra", "papel", "tijera"}
       /\ r.resultado = ResultadoEsperado[r.usuario][r.computadora]

\* A history of 5 records with the three outcomes, loaded from storage.
C17_Witness ==
  /\ ultima[1] = "iniciarJuego"
  /\ Len(estadisticas.historial) = 5
  /\ {estadisticas.historial[i].resultado : i \in 1..5}
       = {"Ganaste", "Perdiste", "Empate"}
  /\ jugadas > 0

\* C18: the history holds min(rondas, 5) records, so it is empty exactly
\* when rondas is 0.
C18_LongitudDelHistorial ==
  /\ Len(estadisticas.historial) =
       (IF estadisticas.rondas < 5 THEN estadisticas.rondas ELSE 5)
  /\ (estadisticas.historial = <<>>) <=> (estadisticas.rondas = 0)

\* Rounds played after a reset and a reload, on a page whose theme was
\* toggled: 2 records for 2 rounds.
C18_Witness ==
  /\ ultima[1] = "jugarRonda"
  /\ estadisticas.rondas = 2
  /\ Len(estadisticas.historial) = 2
  /\ temaGuardado # NULL
  /\ antes.datos # NULL

\* C19: iniciarJuego does not write the theme key; once it has run, a stored
\* preference names the theme the page is in; so a session started on a
\* stored preference is in that theme whatever the ambient preference, and
\* one started with none stored is in the theme of the ambient preference.
C19_PreferenciaGuardada ==
  /\ ultima[1] = "iniciarJuego" => temaGuardado = antes.tema
  /\ (fase = "interactiva" /\ temaGuardado # NULL) =>
       temaGuardado = <<IF bodyTag.dark THEN "dark" ELSE "light">>
  /\ (ultima[1] = "iniciarJuego" /\ temaGuardado = NULL) =>
       bodyTag.dark = ultima[2]

\* A session has just started dark on the "dark" a toggle stored although
\* the ambient preference is light.
C19_Witness ==
  /\ ultima = <<"iniciarJuego", FALSE>>
  /\ temaGuardado = <<"dark">>
  /\ bodyTag.dark

====
